---------------------------- MODULE Spec2Model ----------------------------
(***************************************************************************)
(* The string column of the read buffer: the StringEncoding facade and its  *)
(* three constructors (read_buffer/src/column/string.rs), over the plain    *)
(* and the run-length dictionary encodings.                                 *)
(*                                                                          *)
(* A string is a finite sequence of character codes, ordered                *)
(* lexicographically as Rust orders str.  Option<T> is a sequence of length *)
(* 0 (None) or 1 (Some(x)).  Row ids are 0-based, as in the code.           *)
(***************************************************************************)
EXTENDS Integers, Sequences, FiniteSets, TLC

(* ------------------------------ bounds --------------------------------- *)

\* Longest input sequence (number of rows) explored.
MaxLen == 4

\* The lowered cardinality limit used to reach the plain encoding.
LowLimit == 1

\* Largest count of a push_additional call issued directly on an encoding.
MaxCount == 2

(* --------------------------- program constant -------------------------- *)

TEMP_CARDINALITY_DICTIONARY_ENCODING_LIMIT == 100000

(* ------------------------------ strings -------------------------------- *)

\* "a", "ab", "b": a string, an extension of it, and a larger string.
Strings == { <<1>>, <<1, 2>>, <<2>> }

\* Literals of predicates: the strings above and three that no column holds
\* ("", "aa", "bb").
Literals == Strings \cup { <<>>, <<1, 1>>, <<2, 2>> }

None == <<>>
Some(x) == <<x>>
IsSome(o) == Len(o) = 1
Unwrap(o) == o[1]

OptStrings == { None } \cup { Some(s) : s \in Strings }

RECURSIVE LexLess(_, _)
\* s < t for str: the first differing character decides, a proper prefix is
\* smaller.
LexLess(s, t) ==
  IF t = <<>> THEN FALSE
  ELSE IF s = <<>> THEN TRUE
  ELSE IF Head(s) # Head(t) THEN Head(s) < Head(t)
  ELSE LexLess(Tail(s), Tail(t))

LexLessEq(s, t) == s = t \/ LexLess(s, t)

\* The smallest element of a non-empty set of strings.
LexMin(S) == CHOOSE s \in S : \A t \in S : LexLessEq(s, t)
LexMax(S) == CHOOSE s \in S : \A t \in S : LexLessEq(t, s)

RECURSIVE SortedSeq(_)
\* The iteration order of a BTreeSet<String>.
SortedSeq(S) ==
  IF S = {} THEN <<>>
  ELSE LET m == LexMin(S) IN <<m>> \o SortedSeq(S \ {m})

Range(s) == { s[k] : k \in 1..Len(s) }

RECURSIVE SumSeq(_)
SumSeq(s) == IF s = <<>> THEN 0 ELSE Head(s) + SumSeq(Tail(s))

\* cmp::Operator
Operators == { "Equal", "NotEqual", "LT", "LTE", "GT", "GTE" }


(* ---------------- encoding::dictionary (Plain and RLE) ----------------- *)

NULL_ID == 0

\* The number of dictionary entries lexicographically smaller than v: the
\* insertion point a binary search of the sorted dictionary finds.
InsertionPoint(dictionary, v) ==
  Cardinality({ k \in 1..Len(dictionary) : LexLess(dictionary[k], v) })

\* Whether v is a dictionary entry.
InDictionary(dictionary, v) == \E k \in 1..Len(dictionary) : dictionary[k] = v

\* The encoded id of a dictionary entry: its 1-based position.
EntryId(dictionary, v) == CHOOSE k \in 1..Len(dictionary) : dictionary[k] = v

\* Plain::with_dictionary: ids are assigned in the set's (sorted) order.
Plain_with_dictionary(dictionary) ==
  [ kind |-> "Plain",
    dictionary |-> SortedSeq(dictionary),
    ids |-> <<>>,
    num_rows |-> 0,
    non_null_rows |-> 0,
    column_min |-> None,
    column_max |-> None ]

\* RLE::with_dictionary: as above, with an empty row id set for every id,
\* the NULL id included.
RLE_with_dictionary(dictionary) ==
  [ kind |-> "RLE",
    dictionary |-> SortedSeq(dictionary),
    runs |-> <<>>,
    row_ids_by_id |-> [ e \in 0..Cardinality(dictionary) |-> {} ],
    num_rows |-> 0,
    non_null_rows |-> 0,
    column_min |-> None,
    column_max |-> None ]

\* The dictionary after resolving v: a value the dictionary does not hold yet
\* is appended to it (the constructors never reach this: their dictionary
\* holds every non-null input).
ResolveDictionary(enc, v) ==
  IF IsSome(v) /\ ~InDictionary(enc.dictionary, Unwrap(v))
  THEN Append(enc.dictionary, Unwrap(v))
  ELSE enc.dictionary

\* The id push_additional resolves v to: 0 for NULL.
ResolveId(enc, v) ==
  IF ~IsSome(v) THEN NULL_ID
  ELSE EntryId(ResolveDictionary(enc, v), Unwrap(v))

\* The cached column minimum after rows of value v are added.
PushedMin(enc, v) ==
  IF ~IsSome(v) THEN enc.column_min
  ELSE IF ~IsSome(enc.column_min) THEN v
  ELSE IF LexLess(Unwrap(v), Unwrap(enc.column_min)) THEN v
  ELSE enc.column_min

\* The cached column maximum after rows of value v are added.
PushedMax(enc, v) ==
  IF ~IsSome(v) THEN enc.column_max
  ELSE IF ~IsSome(enc.column_max) THEN v
  ELSE IF LexLess(Unwrap(enc.column_max), Unwrap(v)) THEN v
  ELSE enc.column_max

\* Plain::push_additional: `additional` copies of the id.
Plain_push_additional(enc, v, additional) ==
  LET id == ResolveId(enc, v) IN
  [ enc EXCEPT
      !.dictionary = ResolveDictionary(enc, v),
      !.ids = enc.ids \o [ k \in 1..additional |-> id ],
      !.num_rows = enc.num_rows + additional,
      !.non_null_rows = IF id = NULL_ID THEN @ ELSE @ + additional,
      !.column_min = PushedMin(enc, v),
      !.column_max = PushedMax(enc, v) ]

\* RLE_push_additional with the row range closed at its upper end.
RLE_push_additional_Inclusive(enc, v, additional) ==
  LET id == ResolveId(enc, v)
      n == Len(enc.runs)
      rows == enc.num_rows .. (enc.num_rows + additional)
  IN
  [ enc EXCEPT
      !.dictionary = ResolveDictionary(enc, v),
      !.runs = IF n > 0 /\ enc.runs[n].id = id
               THEN [ enc.runs EXCEPT ![n].len = @ + additional ]
               ELSE Append(enc.runs, [ id |-> id, len |-> additional ]),
      !.row_ids_by_id =
          [ e \in DOMAIN enc.row_ids_by_id \cup {id} |->
              IF e = id
              THEN (IF e \in DOMAIN enc.row_ids_by_id
                    THEN enc.row_ids_by_id[e] ELSE {}) \cup rows
              ELSE enc.row_ids_by_id[e] ],
      !.num_rows = enc.num_rows + additional,
      !.non_null_rows = IF id = NULL_ID THEN @ ELSE @ + additional,
      !.column_min = PushedMin(enc, v),
      !.column_max = PushedMax(enc, v) ]

\* RLE::push_additional: a new run, or a longer last run when the last run
\* carries the same id; the rows join the id's row id set.
RLE_push_additional(enc, v, additional) ==
  LET id == ResolveId(enc, v)
      n == Len(enc.runs)
      rows == enc.num_rows .. (enc.num_rows + additional - 1)
  IN
  [ enc EXCEPT
      !.dictionary = ResolveDictionary(enc, v),
      !.runs = IF n > 0 /\ enc.runs[n].id = id
               THEN [ enc.runs EXCEPT ![n].len = @ + additional ]
               ELSE Append(enc.runs, [ id |-> id, len |-> additional ]),
      !.row_ids_by_id =
          [ e \in DOMAIN enc.row_ids_by_id \cup {id} |->
              IF e = id
              THEN (IF e \in DOMAIN enc.row_ids_by_id
                    THEN enc.row_ids_by_id[e] ELSE {}) \cup rows
              ELSE enc.row_ids_by_id[e] ],
      !.num_rows = enc.num_rows + additional,
      !.non_null_rows = IF id = NULL_ID THEN @ ELSE @ + additional,
      !.column_min = PushedMin(enc, v),
      !.column_max = PushedMax(enc, v) ]

\* Encoding::push_additional
push_additional(enc, v, additional) ==
  IF enc.kind = "RLE" THEN RLE_push_additional(enc, v, additional)
  ELSE Plain_push_additional(enc, v, additional)

RECURSIVE RunIdAt(_, _)
\* The id of row r, found by walking the runs with a cumulative row cursor.
RunIdAt(runs, r) ==
  IF r < Head(runs).len THEN Head(runs).id
  ELSE RunIdAt(Tail(runs), r - Head(runs).len)

\* The encoded id stored for row r.
IdAt(enc, r) ==
  IF enc.kind = "RLE" THEN RunIdAt(enc.runs, r) ELSE enc.ids[r + 1]

\* decode_id of either encoding: None for the NULL id and for an id beyond
\* the dictionary.
Enc_decode_id(enc, e) ==
  IF e >= 1 /\ e <= Len(enc.dictionary) THEN Some(enc.dictionary[e]) ELSE None

Enc_num_rows(enc) == enc.num_rows

Enc_column_min(enc) == enc.column_min

Enc_column_max(enc) == enc.column_max

Enc_contains_null(enc) ==
  IF enc.kind = "RLE" THEN enc.row_ids_by_id[NULL_ID] # {}
  ELSE \E k \in 1..Len(enc.ids) : enc.ids[k] = NULL_ID

Enc_has_any_non_null_value(enc) == enc.non_null_rows > 0

Enc_has_non_null_value(enc, row_ids) ==
  \E k \in 1..Len(row_ids) : IdAt(enc, row_ids[k]) # NULL_ID

\* RLE: the dictionary ids with a non-empty row id set; plain: a scan.
Enc_has_other_non_null_values(enc, values) ==
  IF enc.kind = "RLE"
  THEN \E e \in 1..Len(enc.dictionary) :
         enc.row_ids_by_id[e] # {} /\ enc.dictionary[e] \notin values
  ELSE \E k \in 1..Len(enc.ids) :
         enc.ids[k] # NULL_ID /\ enc.dictionary[enc.ids[k]] \notin values

\* The string at the row, or None for a NULL row.
Enc_value(enc, row_id) ==
  LET id == IdAt(enc, row_id) IN
  IF id = NULL_ID THEN None ELSE Some(enc.dictionary[id])

Enc_values(enc, row_ids, dst) ==
  dst \o [ k \in 1..Len(row_ids) |-> Enc_value(enc, row_ids[k]) ]

Enc_all_values(enc, dst) ==
  dst \o [ k \in 1..enc.num_rows |-> Enc_value(enc, k - 1) ]

Enc_encoded_values(enc, row_ids, dst) ==
  dst \o [ k \in 1..Len(row_ids) |-> IdAt(enc, row_ids[k]) ]

Enc_all_encoded_values(enc, dst) ==
  dst \o [ k \in 1..enc.num_rows |-> IdAt(enc, k - 1) ]

Enc_distinct_values(enc, row_ids, dst) ==
  dst \cup { Enc_value(enc, row_ids[k]) : k \in 1..Len(row_ids) }

\* The non-NULL ids at the given rows.
NonNullIdsAt(enc, row_ids) ==
  { IdAt(enc, row_ids[k]) : k \in 1..Len(row_ids) } \ { NULL_ID }

\* The dictionary is sorted: the smallest id holds the smallest value.
Enc_min(enc, row_ids) ==
  LET ids == NonNullIdsAt(enc, row_ids) IN
  IF ids = {} THEN None
  ELSE Enc_decode_id(enc, CHOOSE e \in ids : \A f \in ids : e <= f)

Enc_max(enc, row_ids) ==
  LET ids == NonNullIdsAt(enc, row_ids) IN
  IF ids = {} THEN None
  ELSE Enc_decode_id(enc, CHOOSE e \in ids : \A f \in ids : e >= f)

Enc_count(enc, row_ids) ==
  Cardinality({ k \in 1..Len(row_ids) : IdAt(enc, row_ids[k]) # NULL_ID })

\* The dictionary ids a predicate `op value` selects: one search of the
\* sorted dictionary, then the ids on the qualifying side.  The NULL id is
\* never selected.
MatchingIds(dictionary, op, value) ==
  LET D == Len(dictionary)
      p == InsertionPoint(dictionary, value)
      found == InDictionary(dictionary, value)
  IN
  CASE op = "Equal" -> IF found THEN { p + 1 } ELSE {}
    [] op = "NotEqual" -> IF found THEN (1..D) \ { p + 1 } ELSE 1..D
    [] op = "LT" -> 1..p
    [] op = "LTE" -> IF found THEN 1..(p + 1) ELSE 1..p
    [] op = "GT" -> IF found THEN (p + 2)..D ELSE (p + 1)..D
    [] op = "GTE" -> (p + 1)..D

\* RLE: the union of the row id sets of the selected ids; plain: a scan of
\* the ids.  The result is added to dst.
Enc_row_ids_filter(enc, value, op, dst) ==
  LET sel == MatchingIds(enc.dictionary, op, value) IN
  IF enc.kind = "RLE"
  THEN dst \cup UNION { enc.row_ids_by_id[e] : e \in sel }
  ELSE dst \cup { k - 1 : k \in { j \in 1..Len(enc.ids) : enc.ids[j] \in sel } }

\* One row id set per encoded id, the NULL id first: the sets RLE keeps, or
\* the sets plain computes on demand.
Enc_group_row_ids(enc) ==
  IF enc.kind = "RLE"
  THEN [ k \in 1..(Len(enc.dictionary) + 1) |-> enc.row_ids_by_id[k - 1] ]
  ELSE [ k \in 1..(Len(enc.dictionary) + 1) |->
           { j - 1 : j \in { i \in 1..Len(enc.ids) : enc.ids[i] = k - 1 } } ]

(* ----------------------- StringEncoding (facade) ----------------------- *)

\* Value::String / Value::Null
ValueString(v) == [ tag |-> "String", v |-> v ]
ValueNull == [ tag |-> "Null", v |-> <<>> ]

\* match c.value(..) { Some(v) => Value::String(v), None => Value::Null }
OptionToValue(o) == IF IsSome(o) THEN ValueString(Unwrap(o)) ELSE ValueNull

\* Values::String(vec)
ValuesString(items) == [ tag |-> "String", items |-> items ]

\* Self::RLEDictionary(enc) / Self::Dictionary(enc)
SealEncoding(enc) ==
  IF enc.kind = "RLE" THEN [ tag |-> "RLEDictionary", enc |-> enc ]
  ELSE [ tag |-> "Dictionary", enc |-> enc ]

num_rows(self) ==
  CASE self.tag = "RLEDictionary" -> Enc_num_rows(self.enc)
    [] self.tag = "Dictionary" -> Enc_num_rows(self.enc)

\* The (min, max) arm column_range panics on.
column_range_panics(self) ==
  IsSome(Enc_column_min(self.enc)) # IsSome(Enc_column_max(self.enc))

\* column_range returning the pair as (max, min).
column_range_Swapped(self) ==
  LET cmin == Enc_column_min(self.enc)
      cmax == Enc_column_max(self.enc)
  IN IF ~IsSome(cmin) /\ ~IsSome(cmax) THEN None
     ELSE Some(<<Unwrap(cmax), Unwrap(cmin)>>)

column_range(self) ==
  LET cmin == Enc_column_min(self.enc)
      cmax == Enc_column_max(self.enc)
  IN IF ~IsSome(cmin) /\ ~IsSome(cmax) THEN None
     ELSE Some(<<Unwrap(cmin), Unwrap(cmax)>>)

contains_null(self) ==
  CASE self.tag = "RLEDictionary" -> Enc_contains_null(self.enc)
    [] self.tag = "Dictionary" -> Enc_contains_null(self.enc)

has_pre_computed_row_id_sets(self) ==
  CASE self.tag = "RLEDictionary" -> TRUE
    [] self.tag = "Dictionary" -> FALSE

\* has_any_non_null_value answered as "the column holds no NULL".
has_any_non_null_value_NoNull(self) ==
  CASE self.tag = "RLEDictionary" -> ~Enc_contains_null(self.enc)
    [] self.tag = "Dictionary" -> ~Enc_contains_null(self.enc)

has_any_non_null_value(self) ==
  CASE self.tag = "RLEDictionary" -> Enc_has_any_non_null_value(self.enc)
    [] self.tag = "Dictionary" -> Enc_has_any_non_null_value(self.enc)

has_non_null_value(self, row_ids) ==
  CASE self.tag = "RLEDictionary" -> Enc_has_non_null_value(self.enc, row_ids)
    [] self.tag = "Dictionary" -> Enc_has_non_null_value(self.enc, row_ids)

has_other_non_null_values(self, vals) ==
  CASE self.tag = "RLEDictionary" ->
         Enc_has_other_non_null_values(self.enc, vals)
    [] self.tag = "Dictionary" ->
         Enc_has_other_non_null_values(self.enc, vals)

value(self, row_id) ==
  CASE self.tag = "RLEDictionary" -> OptionToValue(Enc_value(self.enc, row_id))
    [] self.tag = "Dictionary" -> OptionToValue(Enc_value(self.enc, row_id))

\* The destination handed to the encoding is a fresh vec![].
values(self, row_ids) ==
  CASE self.tag = "RLEDictionary" ->
         ValuesString(Enc_values(self.enc, row_ids, <<>>))
    [] self.tag = "Dictionary" ->
         ValuesString(Enc_values(self.enc, row_ids, <<>>))

all_values(self) ==
  CASE self.tag = "RLEDictionary" -> ValuesString(Enc_all_values(self.enc, <<>>))
    [] self.tag = "Dictionary" -> ValuesString(Enc_all_values(self.enc, <<>>))

\* decode_id reading the dictionary as if ids were 0-based positions.
decode_id_ZeroBased(self, encoded_id) ==
  CASE self.tag = "RLEDictionary" ->
         OptionToValue(Enc_decode_id(self.enc, encoded_id + 1))
    [] self.tag = "Dictionary" ->
         OptionToValue(Enc_decode_id(self.enc, encoded_id + 1))

\* decode_id with the encoding's None answered as the empty string.
decode_id_NoneAsEmpty(self, encoded_id) ==
  LET o == Enc_decode_id(self.enc, encoded_id) IN
  IF IsSome(o) THEN ValueString(Unwrap(o)) ELSE ValueString(<<>>)

decode_id(self, encoded_id) ==
  CASE self.tag = "RLEDictionary" ->
         OptionToValue(Enc_decode_id(self.enc, encoded_id))
    [] self.tag = "Dictionary" ->
         OptionToValue(Enc_decode_id(self.enc, encoded_id))

\* The destination handed to the encoding is a fresh BTreeSet::new().
distinct_values(self, row_ids) ==
  CASE self.tag = "RLEDictionary" -> Enc_distinct_values(self.enc, row_ids, {})
    [] self.tag = "Dictionary" -> Enc_distinct_values(self.enc, row_ids, {})

\* row_ids_filter with the comparison taken from the literal's side
\* (`value op row` for `row op value`).
row_ids_filter_Flipped(self, op, v, dst) ==
  LET flipped == CASE op = "LT" -> "GT"
                   [] op = "LTE" -> "GTE"
                   [] op = "GT" -> "LT"
                   [] op = "GTE" -> "LTE"
                   [] OTHER -> op
  IN CASE self.tag = "RLEDictionary" ->
            Enc_row_ids_filter(self.enc, v, flipped, dst)
       [] self.tag = "Dictionary" ->
            Enc_row_ids_filter(self.enc, v, flipped, dst)

row_ids_filter(self, op, v, dst) ==
  CASE self.tag = "RLEDictionary" -> Enc_row_ids_filter(self.enc, v, op, dst)
    [] self.tag = "Dictionary" -> Enc_row_ids_filter(self.enc, v, op, dst)

\* min whose Dictionary arm was copied from max.
min_DictionaryArmMax(self, row_ids) ==
  CASE self.tag = "RLEDictionary" -> OptionToValue(Enc_min(self.enc, row_ids))
    [] self.tag = "Dictionary" -> OptionToValue(Enc_max(self.enc, row_ids))

min(self, row_ids) ==
  CASE self.tag = "RLEDictionary" -> OptionToValue(Enc_min(self.enc, row_ids))
    [] self.tag = "Dictionary" -> OptionToValue(Enc_min(self.enc, row_ids))

\* max whose RLEDictionary arm was copied from min.
max_RLEArmMin(self, row_ids) ==
  CASE self.tag = "RLEDictionary" -> OptionToValue(Enc_min(self.enc, row_ids))
    [] self.tag = "Dictionary" -> OptionToValue(Enc_max(self.enc, row_ids))

max(self, row_ids) ==
  CASE self.tag = "RLEDictionary" -> OptionToValue(Enc_max(self.enc, row_ids))
    [] self.tag = "Dictionary" -> OptionToValue(Enc_max(self.enc, row_ids))

count(self, row_ids) ==
  CASE self.tag = "RLEDictionary" -> Enc_count(self.enc, row_ids)
    [] self.tag = "Dictionary" -> Enc_count(self.enc, row_ids)

\* Either::Left(borrowed sets) / Either::Right(owned sets)
group_row_ids(self) ==
  CASE self.tag = "RLEDictionary" ->
         [ either |-> "Left", sets |-> Enc_group_row_ids(self.enc) ]
    [] self.tag = "Dictionary" ->
         [ either |-> "Right", sets |-> Enc_group_row_ids(self.enc) ]

\* encoded_values handing the encoding a fresh vec![], as values does.
encoded_values_FreshBuffer(self, row_ids, dst) ==
  CASE self.tag = "RLEDictionary" -> Enc_encoded_values(self.enc, row_ids, <<>>)
    [] self.tag = "Dictionary" -> Enc_encoded_values(self.enc, row_ids, <<>>)

encoded_values(self, row_ids, dst) ==
  CASE self.tag = "RLEDictionary" -> Enc_encoded_values(self.enc, row_ids, dst)
    [] self.tag = "Dictionary" -> Enc_encoded_values(self.enc, row_ids, dst)

all_encoded_values(self, dst) ==
  CASE self.tag = "RLEDictionary" -> Enc_all_encoded_values(self.enc, dst)
    [] self.tag = "Dictionary" -> Enc_all_encoded_values(self.enc, dst)

(* ------------------------------- state --------------------------------- *)

VARIABLES
  ctor,        \* the constructor running: "StringArray", "OptSlice", "Slice";
               \* "Direct" when a caller drives push_additional itself
  arr,         \* the constructor's input
  limit,       \* the cardinality limit the build compares against
  pc,          \* the position in the constructor, or the column's status
  dictionary,  \* the BTreeSet<String> of the first pass
  data,        \* the encoding under construction
  twin,        \* the same build, with the other encoding selected
  prev,        \* the value of the batch being collected
  cnt,         \* `count`: the length of the batch being collected
  i,           \* the index of the next input element of the second pass
  pushed,      \* the push_additional calls made so far, as <<value, count>>
  col,         \* the StringEncoding returned
  twin_col,    \* the StringEncoding of the twin build
  res          \* the last operation called on the column, and its answers

vars ==
  << ctor, arr, limit, pc, dictionary, data, twin, prev, cnt, i, pushed, col,
     twin_col, res >>

NoEncoding == [ kind |-> "none" ]
NoColumn == [ tag |-> "none" ]
NoResult == [ op |-> "none" ]

(* ------------------------------ inputs --------------------------------- *)

SeqsUpTo(S, n) == UNION { [ 1..k -> S ] : k \in 0..n }

\* arrow::array::StringArray, by its length, null bitmap and values.
arrow_len(a) == Len(a)
arrow_is_null(a, k) == ~IsSome(a[k + 1])
arrow_value(a, k) == Unwrap(a[k + 1])

\* The logical input: row r as an optional string, for each input shape.
Input(r) == IF ctor = "Slice" THEN Some(arr[r + 1]) ELSE arr[r + 1]

(* ---------------------------- constructors ----------------------------- *)

\* First pass of From<StringArray>.
ArrowDictionary(a) ==
  { arrow_value(a, k) : k \in { j \in 0..(arrow_len(a) - 1) : ~arrow_is_null(a, j) } }

\* OptDictionary with the first element left out (the second pass's
\* `arr[1..]` used in the first).
OptDictionary_SkipFirst(a) ==
  { Unwrap(a[k]) : k \in { j \in 2..Len(a) : IsSome(a[j]) } }

\* First pass of From<&[Option<&str>]>.
OptDictionary(a) == { Unwrap(a[k]) : k \in { j \in 1..Len(a) : IsSome(a[j]) } }

\* First pass of From<&[&str]>.
StrDictionary(a) == { a[k] : k \in 1..Len(a) }

\* SelectEncoding with the comparison `>=`.
SelectEncoding_AtLimit(dict, lim) ==
  IF Cardinality(dict) >= lim
  THEN Plain_with_dictionary(dict)
  ELSE RLE_with_dictionary(dict)

\* if dictionary.len() > LIMIT { Plain } else { RLE }
SelectEncoding(dict, lim) ==
  IF Cardinality(dict) > lim
  THEN Plain_with_dictionary(dict)
  ELSE RLE_with_dictionary(dict)

\* The encoding the selection does not take at this limit: what the build
\* selects once the limit is moved to the other side of the cardinality.
OtherEncoding(dict, lim) ==
  IF Cardinality(dict) > lim
  THEN RLE_with_dictionary(dict)
  ELSE Plain_with_dictionary(dict)

\* data.push_additional(v, count), made on the build and on its twin.
Push(v, c) ==
  /\ data' = push_additional(data, v, c)
  /\ twin' = push_additional(twin, v, c)
  /\ pushed' = Append(pushed, <<v, c>>)

\* The final batch and the returned column.
PushFinal(v, c) ==
  /\ Push(v, c)
  /\ col' = SealEncoding(data')
  /\ twin_col' = SealEncoding(twin')
  /\ pc' = "sealed"

\* From<arrow::array::StringArray>: the dictionary and the encoding.
Arrow_Dictionary ==
  /\ ctor = "StringArray" /\ pc = "start"
  /\ dictionary' = ArrowDictionary(arr)
  /\ data' = SelectEncoding(dictionary', limit)
  /\ twin' = OtherEncoding(dictionary', limit)
  /\ pc' = "first"
  /\ UNCHANGED << ctor, arr, limit, prev, cnt, i, pushed, col, twin_col, res >>

\* The first element: value(0) of an empty array is out of bounds.
Arrow_First ==
  /\ ctor = "StringArray" /\ pc = "first"
  /\ IF arrow_len(arr) = 0
     THEN pc' = "panicked" /\ UNCHANGED << prev, cnt, i >>
     ELSE /\ prev' = IF ~arrow_is_null(arr, 0) THEN Some(arrow_value(arr, 0))
                     ELSE None
          /\ cnt' = 1
          /\ i' = 1
          /\ pc' = "scan"
  /\ UNCHANGED << ctor, arr, limit, dictionary, data, twin, pushed, col,
                  twin_col, res >>

\* The element at i, as the loop reads it.
ArrowNext == IF arrow_is_null(arr, i) THEN None ELSE Some(arrow_value(arr, i))

Arrow_Same ==
  /\ ctor = "StringArray" /\ pc = "scan" /\ i < arrow_len(arr)
  /\ prev = ArrowNext
  /\ cnt' = cnt + 1
  /\ i' = i + 1
  /\ UNCHANGED << ctor, arr, limit, pc, dictionary, data, twin, prev, pushed,
                  col, twin_col, res >>

Arrow_Push ==
  /\ ctor = "StringArray" /\ pc = "scan" /\ i < arrow_len(arr)
  /\ prev # ArrowNext
  /\ Push(prev, cnt)
  /\ prev' = ArrowNext
  /\ cnt' = 1
  /\ i' = i + 1
  /\ UNCHANGED << ctor, arr, limit, pc, dictionary, col, twin_col, res >>

\* Arrow_Final returning the column without the final push_additional.
Arrow_Final_NoPush ==
  /\ ctor = "StringArray" /\ pc = "scan" /\ i = arrow_len(arr)
  /\ col' = SealEncoding(data)
  /\ twin_col' = SealEncoding(twin)
  /\ pc' = "sealed"
  /\ UNCHANGED << ctor, arr, limit, dictionary, data, twin, prev, cnt, i,
                  pushed, res >>

Arrow_Final ==
  /\ ctor = "StringArray" /\ pc = "scan" /\ i = arrow_len(arr)
  /\ PushFinal(prev, cnt)
  /\ UNCHANGED << ctor, arr, limit, dictionary, prev, cnt, i, res >>

\* From<&[Option<&str>]>: the dictionary and the encoding.
Opt_Dictionary ==
  /\ ctor = "OptSlice" /\ pc = "start"
  /\ dictionary' = OptDictionary(arr)
  /\ data' = SelectEncoding(dictionary', limit)
  /\ twin' = OtherEncoding(dictionary', limit)
  /\ pc' = "first"
  /\ UNCHANGED << ctor, arr, limit, prev, cnt, i, pushed, col, twin_col, res >>

\* let mut prev = &arr[0]: an index out of bounds on an empty slice.
Opt_First ==
  /\ ctor = "OptSlice" /\ pc = "first"
  /\ IF Len(arr) = 0
     THEN pc' = "panicked" /\ UNCHANGED << prev, cnt, i >>
     ELSE /\ prev' = arr[1]
          /\ cnt' = 1
          /\ i' = 1
          /\ pc' = "scan"
  /\ UNCHANGED << ctor, arr, limit, dictionary, data, twin, pushed, col,
                  twin_col, res >>

\* Opt_Same with the batch length left as it was.
Opt_Same_KeepCount ==
  /\ ctor = "OptSlice" /\ pc = "scan" /\ i < Len(arr)
  /\ prev = arr[i + 1]
  /\ i' = i + 1
  /\ UNCHANGED << ctor, arr, limit, pc, dictionary, data, twin, prev, cnt,
                  pushed, col, twin_col, res >>

Opt_Same ==
  /\ ctor = "OptSlice" /\ pc = "scan" /\ i < Len(arr)
  /\ prev = arr[i + 1]
  /\ cnt' = cnt + 1
  /\ i' = i + 1
  /\ UNCHANGED << ctor, arr, limit, pc, dictionary, data, twin, prev, pushed,
                  col, twin_col, res >>

\* Opt_Push with the batch length reset to 0.
Opt_Push_ZeroCount ==
  /\ ctor = "OptSlice" /\ pc = "scan" /\ i < Len(arr)
  /\ prev # arr[i + 1]
  /\ Push(IF IsSome(prev) THEN Some(Unwrap(prev)) ELSE None, cnt)
  /\ prev' = arr[i + 1]
  /\ cnt' = 0
  /\ i' = i + 1
  /\ UNCHANGED << ctor, arr, limit, pc, dictionary, col, twin_col, res >>

Opt_Push ==
  /\ ctor = "OptSlice" /\ pc = "scan" /\ i < Len(arr)
  /\ prev # arr[i + 1]
  /\ Push(IF IsSome(prev) THEN Some(Unwrap(prev)) ELSE None, cnt)
  /\ prev' = arr[i + 1]
  /\ cnt' = 1
  /\ i' = i + 1
  /\ UNCHANGED << ctor, arr, limit, pc, dictionary, col, twin_col, res >>

Opt_Final ==
  /\ ctor = "OptSlice" /\ pc = "scan" /\ i = Len(arr)
  /\ PushFinal(IF IsSome(prev) THEN Some(Unwrap(prev)) ELSE None, cnt)
  /\ UNCHANGED << ctor, arr, limit, dictionary, prev, cnt, i, res >>

\* From<&[&str]>: the dictionary and the encoding.
Str_Dictionary ==
  /\ ctor = "Slice" /\ pc = "start"
  /\ dictionary' = StrDictionary(arr)
  /\ data' = SelectEncoding(dictionary', limit)
  /\ twin' = OtherEncoding(dictionary', limit)
  /\ pc' = "first"
  /\ UNCHANGED << ctor, arr, limit, prev, cnt, i, pushed, col, twin_col, res >>

\* let mut prev = &arr[0]: an index out of bounds on an empty slice.
Str_First ==
  /\ ctor = "Slice" /\ pc = "first"
  /\ IF Len(arr) = 0
     THEN pc' = "panicked" /\ UNCHANGED << prev, cnt, i >>
     ELSE /\ prev' = arr[1]
          /\ cnt' = 1
          /\ i' = 1
          /\ pc' = "scan"
  /\ UNCHANGED << ctor, arr, limit, dictionary, data, twin, pushed, col,
                  twin_col, res >>

Str_Same ==
  /\ ctor = "Slice" /\ pc = "scan" /\ i < Len(arr)
  /\ prev = arr[i + 1]
  /\ cnt' = cnt + 1
  /\ i' = i + 1
  /\ UNCHANGED << ctor, arr, limit, pc, dictionary, data, twin, prev, pushed,
                  col, twin_col, res >>

\* Str_Push pushing the element that ends the batch, not the batch's value.
Str_Push_NextValue ==
  /\ ctor = "Slice" /\ pc = "scan" /\ i < Len(arr)
  /\ prev # arr[i + 1]
  /\ Push(Some(arr[i + 1]), cnt)
  /\ prev' = arr[i + 1]
  /\ cnt' = 1
  /\ i' = i + 1
  /\ UNCHANGED << ctor, arr, limit, pc, dictionary, col, twin_col, res >>

Str_Push ==
  /\ ctor = "Slice" /\ pc = "scan" /\ i < Len(arr)
  /\ prev # arr[i + 1]
  /\ Push(Some(prev), cnt)
  /\ prev' = arr[i + 1]
  /\ cnt' = 1
  /\ i' = i + 1
  /\ UNCHANGED << ctor, arr, limit, pc, dictionary, col, twin_col, res >>

Str_Final ==
  /\ ctor = "Slice" /\ pc = "scan" /\ i = Len(arr)
  /\ PushFinal(Some(prev), cnt)
  /\ UNCHANGED << ctor, arr, limit, dictionary, prev, cnt, i, res >>

\* A caller other than the constructors appends a batch to an encoding made
\* by with_dictionary: any count, 0 included, of NULL or of a value the
\* encoding has an id for (push_additional resolves the value to its id).
Direct_push_additional ==
  /\ ctor = "Direct" /\ pc = "direct"
  /\ Len(pushed) < MaxLen
  /\ \E v \in { None } \cup { Some(s) : s \in dictionary }, c \in 0..MaxCount :
       /\ data.num_rows + c <= MaxLen
       /\ Push(v, c)
  /\ UNCHANGED << ctor, arr, limit, pc, dictionary, prev, cnt, i, col,
                  twin_col, res >>

(* ------------------------ calls on the column -------------------------- *)

\* The row id lists the operations are called with: every list of at most
\* two valid row ids (unordered and repeated ids included) and the list of
\* all rows.
RowLists(n) ==
  SeqsUpTo(0..(n - 1), 2) \cup { [ k \in 1..n |-> k - 1 ] }

\* Destination buffers handed in: empty, or holding earlier results.
DstVecs == { <<>>, <<7>> }
DstRowIDs == { {}, {0} }

\* The operation called, its arguments, its answer, and the answer of the
\* twin column to the same call.
Answer(op, args, out, twin_out) ==
  /\ res' = [ op |-> op, args |-> args, out |-> out, twin |-> twin_out ]
  /\ pc' = "answered"
  /\ UNCHANGED << ctor, arr, limit, dictionary, data, twin, prev, cnt, i,
                  pushed, col, twin_col >>

Call_num_rows ==
  /\ pc = "sealed"
  /\ Answer("num_rows", <<>>, num_rows(col), num_rows(twin_col))

\* column_range, or its panic on a (min, max) pair with one side absent.
Call_column_range ==
  /\ pc = "sealed"
  /\ IF column_range_panics(col)
     THEN /\ pc' = "panicked"
          /\ UNCHANGED << ctor, arr, limit, dictionary, data, twin, prev, cnt,
                          i, pushed, col, twin_col, res >>
     ELSE Answer("column_range", <<>>, column_range(col),
                 column_range(twin_col))

Call_contains_null ==
  /\ pc = "sealed"
  /\ Answer("contains_null", <<>>, contains_null(col), contains_null(twin_col))

Call_has_pre_computed_row_id_sets ==
  /\ pc = "sealed"
  /\ Answer("has_pre_computed_row_id_sets", <<>>,
       has_pre_computed_row_id_sets(col),
       has_pre_computed_row_id_sets(twin_col))

Call_has_any_non_null_value ==
  /\ pc = "sealed"
  /\ Answer("has_any_non_null_value", <<>>, has_any_non_null_value(col),
       has_any_non_null_value(twin_col))

Call_has_non_null_value ==
  /\ pc = "sealed"
  /\ \E rows \in RowLists(Len(arr)) :
       Answer("has_non_null_value", <<rows>>, has_non_null_value(col, rows),
         has_non_null_value(twin_col, rows))

Call_has_other_non_null_values ==
  /\ pc = "sealed"
  /\ \E vals \in SUBSET Strings :
       Answer("has_other_non_null_values", <<vals>>,
         has_other_non_null_values(col, vals),
         has_other_non_null_values(twin_col, vals))

Call_value ==
  /\ pc = "sealed"
  /\ \E r \in 0..(Len(arr) - 1) :
       Answer("value", <<r>>, value(col, r), value(twin_col, r))

Call_values ==
  /\ pc = "sealed"
  /\ \E rows \in RowLists(Len(arr)) :
       Answer("values", <<rows>>, values(col, rows), values(twin_col, rows))

Call_all_values ==
  /\ pc = "sealed"
  /\ Answer("all_values", <<>>, all_values(col), all_values(twin_col))

Call_decode_id ==
  /\ pc = "sealed"
  /\ \E e \in 0..(Cardinality(Strings) + 1) :
       Answer("decode_id", <<e>>, decode_id(col, e), decode_id(twin_col, e))

Call_distinct_values ==
  /\ pc = "sealed"
  /\ \E rows \in RowLists(Len(arr)) :
       Answer("distinct_values", <<rows>>, distinct_values(col, rows),
         distinct_values(twin_col, rows))

Call_row_ids_filter ==
  /\ pc = "sealed"
  /\ \E op \in Operators, v \in Literals, dst \in DstRowIDs :
       Answer("row_ids_filter", <<op, v, dst>>, row_ids_filter(col, op, v, dst),
         row_ids_filter(twin_col, op, v, dst))

Call_min ==
  /\ pc = "sealed"
  /\ \E rows \in RowLists(Len(arr)) :
       Answer("min", <<rows>>, min(col, rows), min(twin_col, rows))

Call_max ==
  /\ pc = "sealed"
  /\ \E rows \in RowLists(Len(arr)) :
       Answer("max", <<rows>>, max(col, rows), max(twin_col, rows))

Call_count ==
  /\ pc = "sealed"
  /\ \E rows \in RowLists(Len(arr)) :
       Answer("count", <<rows>>, count(col, rows), count(twin_col, rows))

Call_group_row_ids ==
  /\ pc = "sealed"
  /\ Answer("group_row_ids", <<>>, group_row_ids(col), group_row_ids(twin_col))

Call_encoded_values ==
  /\ pc = "sealed"
  /\ \E rows \in RowLists(Len(arr)), dst \in DstVecs :
       Answer("encoded_values", <<rows, dst>>, encoded_values(col, rows, dst),
         encoded_values(twin_col, rows, dst))

Call_all_encoded_values ==
  /\ pc = "sealed"
  /\ \E dst \in DstVecs :
       Answer("all_encoded_values", <<dst>>, all_encoded_values(col, dst),
         all_encoded_values(twin_col, dst))

(* ---------------------------- specification ---------------------------- *)

\* The limits a build runs with: the program's, and the lowered one.
Limits == { LowLimit, TEMP_CARDINALITY_DICTIONARY_ENCODING_LIMIT }

InitBuild ==
  /\ ctor \in { "StringArray", "OptSlice", "Slice" }
  /\ arr \in IF ctor = "Slice" THEN SeqsUpTo(Strings, MaxLen)
             ELSE SeqsUpTo(OptStrings, MaxLen)
  /\ limit \in Limits
  /\ pc = "start"
  /\ dictionary = {}
  /\ data = NoEncoding
  /\ twin = NoEncoding

InitDirect ==
  /\ ctor = "Direct"
  /\ arr = <<>>
  /\ limit = TEMP_CARDINALITY_DICTIONARY_ENCODING_LIMIT
  /\ pc = "direct"
  /\ dictionary \in SUBSET Strings
  /\ data = SelectEncoding(dictionary, limit)
  /\ twin = OtherEncoding(dictionary, limit)

Init ==
  /\ InitBuild \/ InitDirect
  /\ prev = None
  /\ cnt = 0
  /\ i = 0
  /\ pushed = <<>>
  /\ col = NoColumn
  /\ twin_col = NoColumn
  /\ res = NoResult

Next ==
  \/ Arrow_Dictionary \/ Arrow_First \/ Arrow_Same \/ Arrow_Push \/ Arrow_Final
  \/ Opt_Dictionary \/ Opt_First \/ Opt_Same \/ Opt_Push \/ Opt_Final
  \/ Str_Dictionary \/ Str_First \/ Str_Same \/ Str_Push \/ Str_Final
  \/ Direct_push_additional
  \/ Call_num_rows \/ Call_column_range
  \/ Call_contains_null \/ Call_has_pre_computed_row_id_sets
  \/ Call_has_any_non_null_value \/ Call_has_non_null_value
  \/ Call_has_other_non_null_values \/ Call_value \/ Call_values
  \/ Call_all_values \/ Call_decode_id \/ Call_distinct_values
  \/ Call_row_ids_filter \/ Call_min \/ Call_max \/ Call_count
  \/ Call_group_row_ids \/ Call_encoded_values \/ Call_all_encoded_values

Spec == Init /\ [][Next]_vars

(* ------------------------------ claims --------------------------------- *)

\* A constructor has just returned the column.  The calls that follow leave
\* the column and the encodings as they are, so what holds of the column here
\* holds of it for good.
Built == pc = "sealed"

\* The logical value of input row r.
Expected(r) ==
  IF IsSome(Input(r)) THEN [ tag |-> "String", v |-> Unwrap(Input(r)) ]
  ELSE [ tag |-> "Null", v |-> <<>> ]

\* The distinct non-null strings of the input.
DistinctNonNull ==
  { Unwrap(Input(r)) : r \in { q \in 0..(Len(arr) - 1) : IsSome(Input(q)) } }

\* C1 (round trip): on every column a constructor returns, num_rows() is the
\* input length and value(r) is the input element at r, NULL for a NULL
\* input, for every row r; this also holds of the answers of the num_rows and
\* value calls made.
C1_RoundTrip ==
  /\ Built =>
       /\ num_rows(col) = Len(arr)
       /\ \A r \in 0..(Len(arr) - 1) : value(col, r) = Expected(r)
  /\ (pc = "answered" /\ res.op = "value") => res.out = Expected(res.args[1])
  /\ (pc = "answered" /\ res.op = "num_rows") => res.out = Len(arr)

\* A value call answered NULL for a NULL row that follows a string row, on a
\* column of three rows or more.
C1_Witness ==
  /\ pc = "answered" /\ res.op = "value"
  /\ Len(arr) >= 3
  /\ res.args[1] = 1
  /\ res.out = [ tag |-> "Null", v |-> <<>> ]
  /\ IsSome(Input(0))

\* C2 (encoding selection): a returned column is the plain dictionary
\* encoding exactly when the input has more distinct non-null strings than
\* the limit, and the run-length encoding otherwise (at exactly the limit
\* too); has_pre_computed_row_id_sets() is true, and group_row_ids() the
\* borrowed (Left) variant, exactly for the run-length encoding.
C2_EncodingSelection ==
  LET plain == Cardinality(DistinctNonNull) > limit IN
  /\ Built =>
       /\ col.tag = (IF plain THEN "Dictionary" ELSE "RLEDictionary")
       /\ col.enc.kind = (IF plain THEN "Plain" ELSE "RLE")
       /\ has_pre_computed_row_id_sets(col) = ~plain
       /\ group_row_ids(col).either = (IF plain THEN "Right" ELSE "Left")
  /\ (pc = "answered" /\ res.op = "has_pre_computed_row_id_sets")
       => res.out = ~plain
  /\ (pc = "answered" /\ res.op = "group_row_ids")
       => res.out.either = (IF plain THEN "Right" ELSE "Left")

\* has_pre_computed_row_id_sets() answered false on a column with one
\* distinct string more than the limit.
C2_Witness ==
  /\ pc = "answered" /\ res.op = "has_pre_computed_row_id_sets"
  /\ res.out = FALSE
  /\ Cardinality(DistinctNonNull) = limit + 1

\* C3 (empty input), as claimed: a constructor given an empty input does not
\* abort, and returns a column with an empty dictionary, no rows, no NULL and
\* no column range, without a push_additional call.
C3_EmptyInputBuilds ==
  (ctor # "Direct" /\ Len(arr) = 0) =>
    /\ pc # "panicked"
    /\ Built =>
         /\ col.enc.dictionary = <<>>
         /\ num_rows(col) = 0
         /\ ~contains_null(col)
         /\ column_range(col) = None
         /\ pushed = <<>>

\* An encoding exists and may have changed: with_dictionary has run, and no
\* call on the returned column, which changes no encoding, has been made.
HasEncoding == data.kind # "none" /\ pc # "answered"

\* The run-length encoding of the build: the one selected, or the twin's.
RLEEnc == IF data.kind = "RLE" THEN data ELSE twin

\* The rows pushed so far: the sum of the counts of the calls made.
RowsPushed == SumSeq([ k \in 1..Len(pushed) |-> pushed[k][2] ])

\* The id a pushed value stands for: 0 for NULL, else one more than the
\* number of smaller strings of the dictionary set.
PushedId(v) ==
  IF ~IsSome(v) THEN 0
  ELSE 1 + Cardinality({ s \in dictionary : LexLess(s, Unwrap(v)) })

\* The maximal runs of equal consecutive elements of s, in order, each as
\* <<value, length>>.
RECURSIVE Batches(_)
Batches(s) ==
  IF s = <<>> THEN <<>>
  ELSE LET n == CHOOSE m \in 1..Len(s) :
                  /\ \A k \in 1..m : s[k] = s[1]
                  /\ m = Len(s) \/ s[m + 1] # s[1]
       IN << <<s[1], n>> >> \o Batches(SubSeq(s, n + 1, Len(s)))

RECURSIVE ExpandCalls(_)
\* The ids of the rows the calls stand for, row by row: each call gives
\* `count` rows of its value's id, a call of count 0 none.
ExpandCalls(calls) ==
  IF calls = <<>> THEN <<>>
  ELSE [ k \in 1..calls[1][2] |-> PushedId(calls[1][1]) ]
         \o ExpandCalls(Tail(calls))

\* The runs as <<id, length>> pairs.
RunPairs(runs) == [ k \in 1..Len(runs) |-> << runs[k].id, runs[k].len >> ]

\* Every call made so far has a count of at least 1.
CountsPositive == \A k \in 1..Len(pushed) : pushed[k][2] >= 1

\* C4 as claimed: after any sequence of push_additional(value, count) calls
\* every run has length >= 1, the run lengths sum to the rows pushed, no two
\* adjacent runs carry the same id, and consecutive calls of one id are
\* merged, so that the runs are the maximal runs of the rows pushed.
C4_AnyCalls ==
  HasEncoding =>
    LET runs == RLEEnc.runs IN
    /\ \A k \in 1..Len(runs) : runs[k].len >= 1
    /\ SumSeq([ k \in 1..Len(runs) |-> runs[k].len ]) = RowsPushed
    /\ \A k \in 1..(Len(runs) - 1) : runs[k].id # runs[k + 1].id
    /\ RunPairs(runs) = Batches(ExpandCalls(pushed))

\* C4 (run-length well-formedness): after every push_additional call, made by
\* a constructor or by another caller, the run lengths sum to the number of
\* rows pushed so far and no two adjacent runs carry the same id.  The calls
\* of a constructor all have a count >= 1; and whenever every call made had a
\* count >= 1, every run has length >= 1 and the runs are exactly the maximal
\* runs of equal ids of the rows pushed (consecutive calls of one id are one
\* run).  After every build the rows pushed are the rows of the input.
C4_RunsWellFormed ==
  HasEncoding =>
    LET runs == RLEEnc.runs IN
    /\ SumSeq([ k \in 1..Len(runs) |-> runs[k].len ]) = RowsPushed
    /\ \A k \in 1..(Len(runs) - 1) : runs[k].id # runs[k + 1].id
    /\ ctor # "Direct" => CountsPositive
    /\ CountsPositive =>
         /\ \A k \in 1..Len(runs) : runs[k].len >= 1
         /\ RunPairs(runs) = Batches(ExpandCalls(pushed))
    /\ Built => RowsPushed = Len(arr)

\* Two consecutive calls of the same value, then a call of another value:
\* two runs for three calls.
C4_Witness ==
  /\ HasEncoding
  /\ Len(pushed) = 3
  /\ CountsPositive
  /\ pushed[1][1] = pushed[2][1]
  /\ pushed[2][1] # pushed[3][1]
  /\ Len(RLEEnc.runs) = 2
  /\ RLEEnc.runs[1].len = pushed[1][2] + pushed[2][2]

\* C5 (inverted index agreement): after every push_additional call, the
\* run-length encoding keeps a row id set for every id of [0, D], the set of
\* id e holds exactly the rows whose id, read from the runs, is e, the sets
\* are pairwise disjoint and their union is [0, N); group_row_ids of a
\* returned run-length column gives these sets, and they agree with the
\* encoded values of the rows.
C5_InvertedIndexAgrees ==
  HasEncoding =>
    LET e == RLEEnc
        D == Len(e.dictionary)
        N == RowsPushed
    IN
    /\ DOMAIN e.row_ids_by_id = 0..D
    /\ \A id \in 0..D :
         e.row_ids_by_id[id] = { r \in 0..(N - 1) : RunIdAt(e.runs, r) = id }
    /\ \A id1, id2 \in 0..D :
         id1 # id2 => e.row_ids_by_id[id1] \cap e.row_ids_by_id[id2] = {}
    /\ UNION { e.row_ids_by_id[id] : id \in 0..D } = 0..(N - 1)
    /\ (Built /\ col.tag = "RLEDictionary") =>
         \A id \in 0..D :
           group_row_ids(col).sets[id + 1] =
             { r \in 0..(num_rows(col) - 1) :
                 encoded_values(col, <<r>>, <<>>)[1] = id }

\* A run-length encoding whose NULL set is not empty and whose id 1 holds
\* two rows that are not adjacent.
C5_Witness ==
  /\ HasEncoding
  /\ RLEEnc.row_ids_by_id[0] = {1}
  /\ RLEEnc.row_ids_by_id[1] = {0, 2}

\* `a op b` on strings, lexicographically.
Compare(op, a, b) ==
  CASE op = "Equal" -> a = b
    [] op = "NotEqual" -> a # b
    [] op = "LT" -> LexLess(a, b)
    [] op = "LTE" -> a = b \/ LexLess(a, b)
    [] op = "GT" -> LexLess(b, a)
    [] op = "GTE" -> a = b \/ LexLess(b, a)

\* The rows a scan of value(r) selects for `op v`: NULL rows never.
ScanFilter(op, v) ==
  { r \in 0..(num_rows(col) - 1) :
      /\ value(col, r).tag = "String"
      /\ Compare(op, value(col, r).v, v) }

\* The rows whose value is not NULL.
NonNullRows == { r \in 0..(num_rows(col) - 1) : value(col, r).tag = "String" }

\* C6 (filter/scan agreement): row_ids_filter(op, v) called with an empty
\* destination answers exactly the rows r whose value(r) is not NULL and
\* satisfies `value(r) op v` lexicographically, for every operator and every
\* literal, in the dictionary or not; no NULL row is answered; for a literal
\* the column does not hold, `=` answers no row and `!=` every non-null row.
C6_FilterAgreesWithScan ==
  (pc = "answered" /\ res.op = "row_ids_filter" /\ res.args[3] = {}) =>
    LET op == res.args[1]
        v == res.args[2]
        absent == \A r \in NonNullRows : value(col, r).v # v
    IN
    /\ res.out = ScanFilter(op, v)
    /\ res.out \subseteq NonNullRows
    /\ (absent /\ op = "Equal") => res.out = {}
    /\ (absent /\ op = "NotEqual") => res.out = NonNullRows

\* `!=` on a literal the column does not hold, answered with rows, on a
\* column with a NULL row.
C6_Witness ==
  /\ pc = "answered" /\ res.op = "row_ids_filter" /\ res.args[3] = {}
  /\ res.args[1] = "NotEqual"
  /\ res.args[2] = <<1, 1>>
  /\ res.out = {0, 2}
  /\ value(col, 1).tag = "Null"

\* C7 (encoding equivalence), as claimed: the column and its twin, built from
\* the same input with the other encoding, give the same answer to every call.
C7_AllOperationsAgree == pc = "answered" => res.out = res.twin

\* C7, amended: the two columns give the same answer to every call except
\* has_pre_computed_row_id_sets, which tells them apart, and group_row_ids,
\* whose Either variant differs while the row id sets it carries agree.
C7_OperationsAgreeButShape ==
  pc = "answered" =>
    /\ col.tag # twin_col.tag
    /\ CASE res.op = "has_pre_computed_row_id_sets" ->
              res.out = (col.tag = "RLEDictionary") /\ res.twin = ~res.out
         [] res.op = "group_row_ids" ->
              /\ res.out.sets = res.twin.sets
              /\ res.out.either # res.twin.either
         [] OTHER -> res.out = res.twin

\* A predicate answered with rows by a plain column whose twin is
\* run-length encoded.
C7_Witness ==
  /\ pc = "answered" /\ res.op = "row_ids_filter"
  /\ col.tag = "Dictionary" /\ twin_col.tag = "RLEDictionary"
  /\ res.args[1] = "GT"
  /\ Cardinality(res.out) = 2

\* C8 (dictionary ids): from the selection of the encoding on, through the
\* second pass and after it, the dictionary of a constructor's encoding is
\* strictly sorted lexicographically and holds exactly the distinct non-null
\* input strings (so it is the same at every step); u < v implies that u has
\* the smaller position; and in the returned column the encoded id of a row
\* is the 1-based position of its string, within [1, D], and 0 exactly for a
\* NULL row.
C8_DictionaryIds ==
  (ctor # "Direct" /\ HasEncoding) =>
    LET d == data.dictionary
        D == Len(d)
    IN
    /\ \A k \in 1..(D - 1) : LexLess(d[k], d[k + 1])
    /\ Range(d) = DistinctNonNull
    /\ twin.dictionary = d
    /\ \A k1, k2 \in 1..D : LexLess(d[k1], d[k2]) => k1 < k2
    /\ Built =>
         /\ col.enc.dictionary = d
         /\ \A r \in 0..(Len(arr) - 1) :
              LET id == encoded_values(col, <<r>>, <<>>)[1] IN
              IF IsSome(Input(r))
              THEN id \in 1..D /\ d[id] = Unwrap(Input(r))
              ELSE id = 0

\* A returned column of three dictionary entries whose first row holds the
\* largest string, with id 3, and whose second row holds the smallest, with
\* id 1.
C8_Witness ==
  /\ pc = "sealed" /\ ctor # "Direct"
  /\ Len(data.dictionary) = 3
  /\ Input(0) = Some(<<2>>)
  /\ encoded_values(col, <<0>>, <<>>) = <<3>>
  /\ encoded_values(col, <<1>>, <<>>) = <<1>>

\* C9 (encoded/logical consistency): for every row r of a returned column,
\* decode_id of the id that encoded_values([r]) gives is value(r); and every
\* id an encoded_values call answered decodes to the value of its row.
C9_DecodeEncodedIsValue ==
  /\ Built =>
       \A r \in 0..(num_rows(col) - 1) :
         decode_id(col, encoded_values(col, <<r>>, <<>>)[1]) = value(col, r)
  /\ (pc = "answered" /\ res.op = "encoded_values") =>
       LET rows == res.args[1]
           dst == res.args[2]
       IN \A k \in 1..Len(rows) :
            decode_id(col, res.out[Len(dst) + k]) = value(col, rows[k])

\* encoded_values([1, 0]) answered the NULL id of row 1 and then the id of
\* the string of row 0.
C9_Witness ==
  /\ pc = "answered" /\ res.op = "encoded_values"
  /\ res.args[1] = <<1, 0>> /\ res.args[2] = <<>>
  /\ res.out = <<0, 2>>
  /\ value(col, 0).tag = "String"

\* The strings value(r) gives at the rows of a list.
ScanStrings(rows) ==
  { value(col, rows[k]).v :
      k \in { j \in 1..Len(rows) : value(col, rows[j]).tag = "String" } }

\* C10 (aggregate agreement): min(rows) and max(rows) are the
\* lexicographically smallest and largest of the non-null value(r) at the
\* rows, NULL exactly when no row of the list holds a string (an empty list
\* included); count(rows) is the number of list entries whose value is not
\* NULL.
C10_AggregatesAgreeWithScan ==
  /\ (pc = "answered" /\ res.op = "min") =>
       LET S == ScanStrings(res.args[1]) IN
       /\ res.out = IF S = {} THEN [ tag |-> "Null", v |-> <<>> ]
                    ELSE [ tag |-> "String", v |-> LexMin(S) ]
       /\ (res.out.tag = "Null") = (S = {})
  /\ (pc = "answered" /\ res.op = "max") =>
       LET S == ScanStrings(res.args[1]) IN
       /\ res.out = IF S = {} THEN [ tag |-> "Null", v |-> <<>> ]
                    ELSE [ tag |-> "String", v |-> LexMax(S) ]
       /\ (res.out.tag = "Null") = (S = {})
  /\ (pc = "answered" /\ res.op = "count") =>
       res.out = Cardinality({ k \in 1..Len(res.args[1]) :
                               value(col, res.args[1][k]).tag = "String" })

\* max over all three rows of a run-length column with a NULL row and two
\* different strings, answered with the larger one.
C10_Witness ==
  /\ pc = "answered" /\ res.op = "max"
  /\ col.tag = "RLEDictionary"
  /\ res.args[1] = <<0, 1, 2>>
  /\ value(col, 1).tag = "Null"
  /\ res.out = [ tag |-> "String", v |-> <<2>> ]
  /\ value(col, 2) = [ tag |-> "String", v |-> <<1, 2>> ]

\* The strings of the non-null rows pushed so far.
PushedStrings ==
  { Unwrap(pushed[k][1]) :
      k \in { j \in 1..Len(pushed) : IsSome(pushed[j][1]) /\ pushed[j][2] > 0 } }

\* The cached range an encoding should hold after the calls made.
ExpectedRange ==
  IF PushedStrings = {} THEN None
  ELSE Some(<<LexMin(PushedStrings), LexMax(PushedStrings)>>)

\* C11 (cached column range): after every push_additional call of a build
\* (and of any caller whose counts are all >= 1, as a build's are), the cached
\* column_min and column_max of the encoding (and of its twin) are both
\* present or both absent; they are absent exactly when no non-null row has
\* been pushed, and otherwise are the lexicographically smallest and largest
\* string pushed; so column_range of a returned column does not panic and
\* answers that pair, and only a constructor given an empty input panics.
C11_CachedRange ==
  /\ (HasEncoding /\ CountsPositive) =>
       \A e \in { data, twin } :
         /\ IsSome(Enc_column_min(e)) = IsSome(Enc_column_max(e))
         /\ IsSome(Enc_column_min(e)) = (PushedStrings # {})
         /\ PushedStrings # {} =>
              /\ Unwrap(Enc_column_min(e)) = LexMin(PushedStrings)
              /\ Unwrap(Enc_column_max(e)) = LexMax(PushedStrings)
  /\ Built =>
       /\ ~column_range_panics(col)
       /\ column_range(col) = ExpectedRange
  /\ (pc = "answered" /\ res.op = "column_range") => res.out = ExpectedRange
  /\ pc = "panicked" => (Len(arr) = 0 /\ col = NoColumn)

\* column_range answered ("a", "b") on a column whose first row is NULL.
C11_Witness ==
  /\ pc = "answered" /\ res.op = "column_range"
  /\ res.out = Some(<< <<1>>, <<2>> >>)
  /\ ~IsSome(Input(0))
  /\ Len(pushed) >= 3

\* The rows of a column whose encoded id is the NULL id.
NullRows(c) ==
  { r \in 0..(num_rows(c) - 1) : encoded_values(c, <<r>>, <<>>)[1] = 0 }

\* C12 (NULL presence): for a returned column of either encoding (the column
\* and its twin), contains_null() is true exactly when some row has encoded
\* id 0, which is when the input holds a NULL, when row_ids_by_id[0] is not
\* empty (run-length) and when some entry of ids is 0 (plain); and
\* has_any_non_null_value() is true exactly when the number of rows less the
\* number of NULL rows is positive.
C12_NullPresence ==
  /\ Built =>
       \A c \in { col, twin_col } :
         /\ contains_null(c) = (NullRows(c) # {})
         /\ contains_null(c) = (\E r \in 0..(Len(arr) - 1) : ~IsSome(Input(r)))
         /\ c.tag = "RLEDictionary" =>
              contains_null(c) = (c.enc.row_ids_by_id[0] # {})
         /\ c.tag = "Dictionary" =>
              contains_null(c) = (\E k \in 1..Len(c.enc.ids) : c.enc.ids[k] = 0)
         /\ has_any_non_null_value(c)
              = (num_rows(c) - Cardinality(NullRows(c)) > 0)
  /\ (pc = "answered" /\ res.op = "contains_null") =>
       /\ res.out = (NullRows(col) # {})
       /\ res.twin = res.out
  /\ (pc = "answered" /\ res.op = "has_any_non_null_value") =>
       /\ res.out = (num_rows(col) - Cardinality(NullRows(col)) > 0)
       /\ res.twin = res.out

\* has_any_non_null_value answered true by a plain column that holds a NULL.
C12_Witness ==
  /\ pc = "answered" /\ res.op = "has_any_non_null_value"
  /\ res.out = TRUE
  /\ col.tag = "Dictionary"
  /\ contains_null(col)

\* C13 (decode_id), as claimed: the facade's decode_id(e) answers the
\* dictionary string for e in [1, D], NULL for e = 0, and for e > D a result
\* "None" that is neither NULL nor a string.
C13_OutOfRangeIsNotNull ==
  (pc = "answered" /\ res.op = "decode_id") =>
    LET e == res.args[1]
        d == col.enc.dictionary
    IN
    /\ e \in 1..Len(d) => res.out = [ tag |-> "String", v |-> d[e] ]
    /\ e = 0 => res.out = [ tag |-> "Null", v |-> <<>> ]
    /\ e > Len(d) => res.out.tag \notin { "Null", "String" }

\* C13, amended: the facade's decode_id(e) answers the dictionary string for
\* e in [1, D], and Value::Null both for e = 0 and for e > D: the None of the
\* encoding is answered as NULL, whatever its cause; the twin answers alike.
C13_DecodeId ==
  (pc = "answered" /\ res.op = "decode_id") =>
    LET e == res.args[1]
        d == col.enc.dictionary
    IN
    /\ e \in 1..Len(d) => res.out = [ tag |-> "String", v |-> d[e] ]
    /\ e = 0 => res.out = [ tag |-> "Null", v |-> <<>> ]
    /\ e > Len(d) => res.out = [ tag |-> "Null", v |-> <<>> ]
    /\ res.twin = res.out

\* decode_id of the id just beyond a dictionary of two entries, answered
\* NULL.
C13_Witness ==
  /\ pc = "answered" /\ res.op = "decode_id"
  /\ Len(col.enc.dictionary) = 2
  /\ res.args[1] = 3
  /\ res.out = [ tag |-> "Null", v |-> <<>> ]

\* The logical input as a sequence of optional strings, and its first n rows.
LogicalInput == [ k \in 1..Len(arr) |-> Input(k - 1) ]
LogicalPrefix(n) == SubSeq(LogicalInput, 1, n)

\* The ids of the input rows: 0 for NULL, else the rank of the string among
\* the distinct strings of the input.
InputIds(row_ids) == [ k \in 1..Len(row_ids) |-> PushedId(Input(row_ids[k])) ]
AllRows == [ k \in 1..Len(arr) |-> k - 1 ]

\* Destinations a caller holds, empty or with earlier results in them.
DstValues == { <<>>, << None, Some(<<1>>) >> }
DstValueSets == { {}, { None, Some(<<1>>) } }

PendingBatch == << IF ctor = "Slice" THEN Some(prev) ELSE prev, cnt >>

\* A constructor is in, or past, its second pass.
Constructing == ctor # "Direct"

\* C15 (builder batch protocol): during the second pass the push_additional
\* calls made so far, followed by the batch being collected, are the maximal
\* runs of the rows read so far, in row order (consecutive NULLs one batch),
\* so the final batch is not pushed before the scan ends; once the column is
\* returned the calls are exactly the maximal runs of the whole input, the
\* final batch pushed once.  Each call's value differs from the call before,
\* every count is at least 1, and the counts sum to the input length.
C15_BatchProtocol ==
  Constructing =>
    /\ pc = "scan" =>
         /\ Append(pushed, PendingBatch) = Batches(LogicalPrefix(i))
         /\ cnt >= 1
         /\ SumSeq([ k \in 1..Len(pushed) |-> pushed[k][2] ]) + cnt = i
    /\ pc \in { "sealed", "answered" } =>
         /\ pushed = Batches(LogicalInput)
         /\ SumSeq([ k \in 1..Len(pushed) |-> pushed[k][2] ]) = Len(arr)
    /\ pc \in { "start", "first", "panicked" } => pushed = <<>>
    /\ \A k \in 1..Len(pushed) : pushed[k][2] >= 1
    /\ \A k \in 2..Len(pushed) : pushed[k][1] # pushed[k - 1][1]

\* A returned column whose input starts with two NULLs: one batch of NULL of
\* count 2, then the batches of the strings that follow.
C15_Witness ==
  /\ pc = "sealed" /\ ctor = "StringArray"
  /\ Len(arr) = 4
  /\ pushed = << <<None, 2>>, <<Some(<<1>>), 1>>, <<Some(<<2>>), 1>> >>

\* push_additional applied call by call.
RECURSIVE PushAll(_, _)
PushAll(enc, calls) ==
  IF calls = <<>> THEN enc
  ELSE PushAll(push_additional(enc, calls[1][1], calls[1][2]), Tail(calls))

\* The column of a logical input, whatever the shape it is given in.
CanonicalColumn ==
  SealEncoding(PushAll(SelectEncoding(DistinctNonNull, limit),
                       Batches(LogicalInput)))

\* The input has no NULL, so that it can be given as a list of strings.
NoNullInput == \A k \in 1..Len(LogicalInput) : IsSome(LogicalInput[k])

\* C16 (constructor agreement): the dictionary, the encoding, the
\* push_additional calls and the returned column are those of the logical
\* input alone: the first passes of the three constructors give the same
\* dictionary on it (that of the list of strings when it has no NULL), and the
\* returned column is the one column the logical input and the limit
\* determine.  Every constructor aborts on the empty input and on no other.
C16_ConstructorsAgree ==
  Constructing =>
    /\ pc \notin { "start" } =>
         /\ dictionary = ArrowDictionary(LogicalInput)
         /\ dictionary = OptDictionary(LogicalInput)
         /\ NoNullInput =>
              dictionary =
                StrDictionary([ k \in 1..Len(arr) |-> Unwrap(LogicalInput[k]) ])
         /\ data.kind = SelectEncoding(DistinctNonNull, limit).kind
    /\ Built =>
         /\ col = CanonicalColumn
         /\ pushed = Batches(LogicalInput)
    /\ pc = "panicked" <=> (pc \notin { "start", "first" } /\ Len(arr) = 0)

\* The list-of-strings constructor returned the column of three rows in two
\* batches that the other two constructors return for the same rows.
C16_Witness ==
  /\ pc = "sealed" /\ ctor = "Slice"
  /\ arr = << <<1>>, <<1>>, <<1, 2>> >>
  /\ pushed = << <<Some(<<1>>), 2>>, <<Some(<<1, 2>>), 1>> >>
  /\ col = CanonicalColumn

=============================================================================
